---- MODULE Spec2Model ----
(***************************************************************************)
(* Verification model of the Trending Issue Resolution System.             *)
(*                                                                         *)
(* These parts of the repository are modelled:                             *)
(*   - the agent pipeline rooted at TrendingIssueResolverAgent             *)
(*     (trending_issue_resolver/agent.py and its sub_agents) : Spec,       *)
(*     and with the fairness of a running coroutine     : SpecMonitor      *)
(*   - HumanInterventionAgent.process on a session      : SpecIntervene    *)
(*   - the escalation scorer HumanInterventionAgent._should_escalate,      *)
(*     a pure function                                        : SpecScore  *)
(*   - the standalone runner run_final.py main()              : SpecRunFinal*)
(*   - BigQueryTool.get_trending_issues over the issues table : SpecTrend  *)
(*   - DatastoreTool.search_knowledge_base, a pure function   : SpecRank   *)
(*                                                                         *)
(* Python dicts are functions with a string domain; dict.get(k, d) is      *)
(* Get(d, k, default).  Python None is NoneVal.                            *)
(***************************************************************************)
EXTENDS Integers, Sequences, FiniteSets, Bags, TLC

VARIABLES
    \* ---- agent pipeline (Spec)
    pc,               \* position of TrendingIssueResolverAgent.process
    state,            \* context.session.state, a dict
    tools,            \* what context.get_tool finds under each name
    response_history, \* the response store (kind "response_history")
    cycle,            \* number of process() calls started on the session
    iterations,       \* iterations of the signal_watcher loop in this cycle
    ran,              \* sub-agents that completed in this cycle, in order
    error,            \* exception that ended the cycle, "none" otherwise
    history_at_start, \* response_history when the cycle started
    hi_result,        \* outcome of HumanInterventionAgent.process in this cycle
    baseline_for,     \* the last get_historical_context call: when, for which
                      \* category, and what it returned (NoneVal before one)
    \* ---- escalation scorer (SpecScore)
    hi_issue,        \* issue_summary argument of _should_escalate
    hi_resolution,   \* resolution argument of _should_escalate
    hi_decision,     \* what _should_escalate returned (NoneVal before the call)
    \* ---- standalone runner run_final.py (SpecRunFinal)
    rf_pc,           \* position of main()
    rf_issue,        \* issue returned by detect_trending_issues
    rf_articles,     \* articles returned by search_knowledge_base
    rf_resolution,   \* resolution returned by generate_resolution
    rf_saved,        \* entities main() has put into response_history
    rf_ds_failed,    \* the knowledge store raised during search_knowledge_base
    \* ---- BigQueryTool.get_trending_issues (SpecTrend)
    tr_events,       \* rows of customer_interactions.issues in the window
    tr_min,          \* min_occurrences of the last call, 0 before a call
    tr_result,       \* what the last call returned
    \* ---- DatastoreTool.search_knowledge_base (SpecRank)
    rk_query,        \* arguments of the call: issue_type, product_area, keywords
    rk_done,         \* the call has returned
    rk_result,       \* what the call returned
    \* ---- HumanInterventionAgent.process on a session (SpecIntervene)
    hs_state,        \* context.session.state of the evaluated session
    hs_crm_tool,     \* what context.get_tool("crm_tool") finds
    hs_result,       \* what process returned (NoneVal before the call)
    crm_escalations  \* number of CRMTool.escalate_to_human calls made

pipelineVars == <<pc, state, tools, response_history, cycle, iterations, ran,
                  error, history_at_start, hi_result, baseline_for>>

scoreVars == <<hi_issue, hi_resolution, hi_decision>>

runFinalVars == <<rf_pc, rf_issue, rf_articles, rf_resolution, rf_saved,
                  rf_ds_failed>>

trendVars == <<tr_events, tr_min, tr_result>>

rankVars == <<rk_query, rk_done, rk_result>>

interveneVars == <<hs_state, hs_crm_tool, hs_result, crm_escalations>>

\* what the agent pipeline never touches
outsidePipeline == <<scoreVars, runFinalVars, trendVars, rankVars, interveneVars>>

\* what the escalation scorer never touches
outsideScore == <<pipelineVars, runFinalVars, trendVars, rankVars, interveneVars>>

\* what run_final.py never touches
outsideRunFinal == <<pipelineVars, scoreVars, trendVars, rankVars, interveneVars>>

\* what get_trending_issues never touches
outsideTrend == <<pipelineVars, scoreVars, runFinalVars, rankVars, interveneVars>>

\* what search_knowledge_base never touches
outsideRank == <<pipelineVars, scoreVars, runFinalVars, trendVars, interveneVars>>

\* what the human-intervention stage run on its own session never touches
outsideIntervene == <<pipelineVars, scoreVars, runFinalVars, trendVars, rankVars>>

vars == <<pc, state, tools, response_history, cycle, iterations, ran,
          error, history_at_start, hi_result, baseline_for,
          hi_issue, hi_resolution, hi_decision,
          rf_pc, rf_issue, rf_articles, rf_resolution, rf_saved, rf_ds_failed,
          tr_events, tr_min, tr_result,
          rk_query, rk_done, rk_result,
          hs_state, hs_crm_tool, hs_result, crm_escalations>>

----------------------------------------------------------------------------
(* Values shared by the three programs *)

NoneVal == [none |-> TRUE]

Get(d, k, default) == IF k \in DOMAIN d THEN d[k] ELSE default

\* dict.update(u): the keys of u are added or overwritten
Update(d, u) == u @@ d

\* bound of the model: largest affected-user count drawn as an input
MaxCount == 102

\* bound of the model: process() calls explored on one session
MaxCycles == 2

\* bound of the model: loop iterations explored in one cycle (the code sets
\* no cap of its own)
MaxIterations == 3

----------------------------------------------------------------------------
(* HumanInterventionAgent._should_escalate                                  *)

\* texts a resolution can carry in resolution_text; the scorer only asks
\* whether the lower-cased text contains "unknown"
ResolutionTexts == {"", "restart the auth service", "Unknown failure pattern"}

ContainsUnknownLower(text) == text \in {"Unknown failure pattern"}

\* kb_articles_used is an integer in the standalone runners
\* (len(articles)) and a list of ids in the agent pipeline
IntVal(n) == [kind |-> "int", n |-> n]
ListVal(ids) == [kind |-> "list", ids |-> ids]

critical_types == {"database", "authentication", "payment"}

\* CountRule with the upper tier taken at >= 100
CountRule_TierAt100(issue_summary) ==
    IF Get(issue_summary, "count", 0) >= 100
      THEN << [reason |-> "High impact: >100 users affected", points |-> 3] >>
    ELSE IF Get(issue_summary, "count", 0) > 50
      THEN << [reason |-> "Medium-high impact: >50 users affected", points |-> 2] >>
    ELSE << >>

\* rule "severity and impact": if count > 100 ... elif count > 50 ...
CountRule(issue_summary) ==
    IF Get(issue_summary, "count", 0) > 100
      THEN << [reason |-> "High impact: >100 users affected", points |-> 3] >>
    ELSE IF Get(issue_summary, "count", 0) > 50
      THEN << [reason |-> "Medium-high impact: >50 users affected", points |-> 2] >>
    ELSE << >>

\* CriticalRule with authentication left out of the critical types
CriticalRule_NoAuth(issue_summary) ==
    IF Get(issue_summary, "issue_type", "None") \in {"database", "payment"}
      THEN << [reason |-> "Critical service affected", points |-> 2] >>
    ELSE << >>

\* rule "issue type criticality"
CriticalRule(issue_summary) ==
    IF Get(issue_summary, "issue_type", "None") \in critical_types
      THEN << [reason |-> "Critical service affected", points |-> 2] >>
    ELSE << >>

\* the cascade rule taken from one reason on
CascadeRule_AtOne(reasons_so_far) ==
    IF Len(reasons_so_far) > 0
      THEN << [reason |-> "Multiple critical systems affected", points |-> 2] >>
    ELSE << >>

\* rule "multiple services affected": more than one reason so far
CascadeRule(reasons_so_far) ==
    IF Len(reasons_so_far) > 1
      THEN << [reason |-> "Multiple critical systems affected", points |-> 2] >>
    ELSE << >>

\* rule "resolution confidence": == 0 ... elif < 2 ...; comparing a list
\* with 0 is False and list < 2 raises TypeError
ConfidenceRaises(resolution) ==
    Get(resolution, "kb_articles_used", IntVal(0)).kind = "list"

ConfidenceRule(resolution) ==
    LET kb == Get(resolution, "kb_articles_used", IntVal(0)) IN
    IF kb.kind = "int" /\ kb.n = 0
      THEN << [reason |-> "No knowledge base articles found", points |-> 2] >>
    ELSE IF kb.kind = "int" /\ kb.n < 2
      THEN << [reason |-> "Limited knowledge base coverage", points |-> 1] >>
    ELSE << >>

\* rule "novel/unknown issues"
UnknownRule(resolution) ==
    IF ContainsUnknownLower(Get(resolution, "resolution_text", ""))
      THEN << [reason |-> "Unknown or novel issue pattern", points |-> 3] >>
    ELSE << >>

RECURSIVE SumPoints(_)
SumPoints(entries) ==
    IF entries = << >> THEN 0
    ELSE Head(entries).points + SumPoints(Tail(entries))

\* the decision taken strictly above 4
should_escalate_of_Strict(escalation_score) == escalation_score > 4

should_escalate_of(escalation_score) == escalation_score >= 4

escalation_level_of(escalation_score) ==
    IF escalation_score >= 6 THEN "urgent"
    ELSE IF escalation_score >= 4 THEN "high"
    ELSE "normal"

_get_recommended_team(issue_summary) ==
    LET t == Get(issue_summary, "issue_type", "None") IN
    CASE t = "authentication" -> "identity_team"
      [] t = "payment"        -> "billing_team"
      [] t = "database"       -> "infrastructure_team"
      [] t = "api"            -> "platform_team"
      [] t = "notification"   -> "communication_team"
      [] OTHER                -> "incident_response_team"

_get_response_time(escalation_level) ==
    CASE escalation_level = "urgent" -> "15 minutes"
      [] escalation_level = "high"   -> "30 minutes"
      [] escalation_level = "normal" -> "1 hour"
      [] OTHER                       -> "1 hour"

\* the whole function; "raised" is set when the body raises TypeError
_should_escalate(issue_summary, resolution) ==
    IF ConfidenceRaises(resolution) THEN [raised |-> "TypeError"]
    ELSE
    LET r1 == CountRule(issue_summary) \o CriticalRule(issue_summary)
        r2 == r1 \o CascadeRule(r1)
        r3 == r2 \o ConfidenceRule(resolution)
        entries == r3 \o UnknownRule(resolution)
        escalation_score == SumPoints(entries)
        escalation_level == escalation_level_of(escalation_score)
    IN  [ should_escalate   |-> should_escalate_of(escalation_score),
          escalation_score  |-> escalation_score,
          escalation_level  |-> escalation_level,
          reasons           |-> [i \in 1..Len(entries) |-> entries[i].reason],
          recommended_team  |-> _get_recommended_team(issue_summary),
          estimated_response_time |-> _get_response_time(escalation_level) ]

----------------------------------------------------------------------------
(* SpecScore: the scorer applied to inputs drawn from bounded sets          *)

ScoreIssueTypes == {"authentication", "payment", "database", "notification", "api"}

\* an issue summary with issue_type and count, as the standalone runners
\* build it, or with "type" in place of "issue_type", as TrendSummarizer does
ScoreIssues ==
    { [issue_type |-> t, count |-> c] : t \in ScoreIssueTypes, c \in 0..MaxCount }
    \cup { [type |-> "authentication", count |-> c] : c \in {45, 101} }

ScoreResolutions ==
    { [kb_articles_used |-> IntVal(n), resolution_text |-> x] :
          n \in 0..3, x \in ResolutionTexts }
    \cup { [kb_articles_used |-> ListVal(<<"kb1">>)] }

\* the pipeline before any process() call
PipelineIdle ==
    /\ pc = "idle"
    /\ state = << >>
    /\ response_history = << >>
    /\ cycle = 0
    /\ iterations = 0
    /\ ran = << >>
    /\ error = "none"
    /\ history_at_start = << >>
    /\ hi_result = "not_called"
    /\ baseline_for = NoneVal

\* HumanInterventionAgent before it is run on a session of its own
InterveneIdle ==
    /\ hs_state = << >>
    /\ hs_crm_tool = "none"
    /\ hs_result = NoneVal
    /\ crm_escalations = 0

\* run_final.py before main() is called
RunFinalIdle ==
    /\ rf_pc = "start"
    /\ rf_issue = NoneVal
    /\ rf_articles = << >>
    /\ rf_resolution = NoneVal
    /\ rf_saved = << >>
    /\ rf_ds_failed = FALSE

\* the issues table before any row is read
TrendIdle ==
    /\ tr_events = << >>
    /\ tr_min = 0
    /\ tr_result = << >>

\* search_knowledge_base before it is called
RankIdle ==
    /\ rk_query = NoneVal
    /\ rk_done = FALSE
    /\ rk_result = << >>

NoTools ==
    tools = [bigquery_tool |-> "none", datastore_tool |-> "none",
             firestore_tool |-> "none"]

InitScore ==
    /\ hi_issue \in ScoreIssues
    /\ hi_resolution \in ScoreResolutions
    /\ hi_decision = NoneVal
    /\ PipelineIdle
    /\ InterveneIdle
    /\ NoTools
    /\ RunFinalIdle
    /\ TrendIdle
    /\ RankIdle

Evaluate ==
    /\ hi_decision = NoneVal
    /\ hi_decision' = _should_escalate(hi_issue, hi_resolution)
    /\ UNCHANGED <<hi_issue, hi_resolution>>
    /\ UNCHANGED outsideScore

NextScore == Evaluate

SpecScore == InitScore /\ [][NextScore]_vars

Evaluated == hi_decision # NoneVal /\ "raised" \notin DOMAIN hi_decision

HasReason(decision, r) == \E i \in 1..Len(decision.reasons) : decision.reasons[i] = r

\* C8: for every score the scorer returns, should_escalate is true exactly
\* when score >= 4, the level is urgent for score >= 6, high for
\* 4 <= score < 6 and normal below 4, so should_escalate holds exactly when
\* the level is not normal.
Thm_C8 ==
    Evaluated =>
        /\ hi_decision.should_escalate <=> hi_decision.escalation_score >= 4
        /\ hi_decision.escalation_level = "urgent" <=> hi_decision.escalation_score >= 6
        /\ hi_decision.escalation_level = "high" <=>
               (hi_decision.escalation_score >= 4 /\ hi_decision.escalation_score < 6)
        /\ hi_decision.escalation_level = "normal" <=> hi_decision.escalation_score < 4
        /\ hi_decision.should_escalate <=> hi_decision.escalation_level # "normal"

\* a decision at the boundary score 4
Wit_C8 ==
    /\ Evaluated
    /\ hi_decision.escalation_score = 4
    /\ hi_decision.should_escalate
    /\ hi_decision.escalation_level = "high"

ScenarioA ==
    /\ Evaluated
    /\ hi_issue = [issue_type |-> "authentication", count |-> 45]
    /\ hi_resolution.kb_articles_used = IntVal(0)
    /\ ~ContainsUnknownLower(hi_resolution.resolution_text)

\* C9 as stated: Scenario A (authentication, count 45, no articles) scores 6,
\* level urgent, should_escalate true.
Orig_C9 ==
    ScenarioA =>
        /\ hi_decision.escalation_score = 6
        /\ hi_decision.escalation_level = "urgent"
        /\ hi_decision.should_escalate

\* C9 amended: Scenario A scores 4 (0 for the count tier, +2 critical
\* category, +2 for no articles; the baseline is not an input of the scorer),
\* level high, should_escalate true.
Thm_C9 ==
    ScenarioA =>
        /\ hi_decision.escalation_score = 4
        /\ hi_decision.escalation_level = "high"
        /\ hi_decision.should_escalate
        /\ hi_decision.reasons =
              << "Critical service affected", "No knowledge base articles found" >>

Wit_C9 == ScenarioA /\ hi_resolution.resolution_text = ""

\* the inputs on which no rule but the affected-count rule can trigger
OnlyCountRuleCanFire ==
    /\ Evaluated
    /\ "issue_type" \in DOMAIN hi_issue
    /\ hi_issue.issue_type \notin {"database", "authentication", "payment"}
    /\ hi_resolution.kb_articles_used.n >= 2
    /\ hi_resolution.resolution_text = ""

\* C10: the affected-count rule adds +3 when count > 100, otherwise +2 when
\* count > 50, otherwise nothing, and never both tiers: 50 adds 0, 51 and
\* 100 add 2, 101 adds 3.
Thm_C10 ==
    /\ Evaluated =>
          /\ HasReason(hi_decision, "High impact: >100 users affected")
                <=> hi_issue.count > 100
          /\ HasReason(hi_decision, "Medium-high impact: >50 users affected")
                <=> (hi_issue.count > 50 /\ hi_issue.count <= 100)
    /\ OnlyCountRuleCanFire =>
          /\ hi_decision.escalation_score =
                (IF hi_issue.count > 100 THEN 3 ELSE IF hi_issue.count > 50 THEN 2 ELSE 0)
          /\ hi_issue.count = 50  => hi_decision.escalation_score = 0
          /\ hi_issue.count = 51  => hi_decision.escalation_score = 2
          /\ hi_issue.count = 100 => hi_decision.escalation_score = 2
          /\ hi_issue.count = 101 => hi_decision.escalation_score = 3

Wit_C10 ==
    /\ OnlyCountRuleCanFire
    /\ hi_issue.count = 100
    /\ hi_decision.escalation_score = 2

----------------------------------------------------------------------------
(* The agent pipeline: inputs                                               *)

\* the tool registries explored: the one TrendingIssueResolverAgent
\* registers itself (BigQueryTool and DatastoreTool, no firestore_tool),
\* registries with a tool missing, and registries holding a datastore_tool
\* double that stores what it is given, as the tests register
ToolSets ==
    { [bigquery_tool |-> "BigQueryTool", datastore_tool |-> "DatastoreTool",
       firestore_tool |-> "none"],
      [bigquery_tool |-> "none", datastore_tool |-> "DatastoreTool",
       firestore_tool |-> "none"],
      [bigquery_tool |-> "BigQueryTool", datastore_tool |-> "none",
       firestore_tool |-> "none"],
      [bigquery_tool |-> "BigQueryTool", datastore_tool |-> "Double",
       firestore_tool |-> "none"],
      [bigquery_tool |-> "BigQueryTool", datastore_tool |-> "Double",
       firestore_tool |-> "FirestoreTool"] }

\* incidents are a bag of ages: minutes between the incident's timestamp and
\* context.current_time
IssueAuth ==
    [issue_type |-> "authentication", product_area |-> "login",
     description |-> "Users unable to login", severity |-> "high",
     count |-> 45, incidents |-> (5 :> 30) @@ (40 :> 15)]

IssueNotif ==
    [issue_type |-> "notification", product_area |-> "email",
     description |-> "Delayed notifications", severity |-> "medium",
     count |-> 15, incidents |-> (50 :> 15)]

IssueApi ==
    [issue_type |-> "api", product_area |-> "gateway",
     description |-> "Gateway timeouts", severity |-> "low",
     count |-> 12, incidents |-> (5 :> 8) @@ (50 :> 4)]

\* rows of the notification/email category that differ from IssueNotif in
\* severity or description only, so GROUP BY keeps them apart
IssueNotifLow ==
    [issue_type |-> "notification", product_area |-> "email",
     description |-> "Delayed notifications", severity |-> "low",
     count |-> 11, incidents |-> (50 :> 11)]

IssueNotifBounce ==
    [issue_type |-> "notification", product_area |-> "email",
     description |-> "Bounced notifications", severity |-> "medium",
     count |-> 10, incidents |-> (50 :> 10)]

\* low-severity rows of one category with different spreads of incidents
\* over the window: twelve of which eight recent, four all recent, ten of
\* which five at the edge of the last quarter, ten of which four recent
IssueApiFew ==
    [issue_type |-> "api", product_area |-> "gateway",
     description |-> "Gateway timeouts", severity |-> "low",
     count |-> 10, incidents |-> (5 :> 4)]

IssueApiHalf ==
    [issue_type |-> "api", product_area |-> "gateway",
     description |-> "Gateway timeouts", severity |-> "low",
     count |-> 10, incidents |-> (15 :> 5) @@ (16 :> 5)]

IssueApiUnder ==
    [issue_type |-> "api", product_area |-> "gateway",
     description |-> "Gateway timeouts", severity |-> "low",
     count |-> 10, incidents |-> (5 :> 4) @@ (50 :> 6)]

\* a row as the tests build it: fewer incidents listed than counted
IssueSample ==
    [issue_type |-> "payment", product_area |-> "billing",
     description |-> "Payment processing errors", severity |-> "medium",
     count |-> 10, incidents |-> (50 :> 2)]

\* what get_trending_issues can return: rows ordered by count descending,
\* each with count >= trend_threshold
QueryResults ==
    { << >>, <<IssueAuth>>, <<IssueNotif>>, <<IssueSample>>,
      <<IssueNotif, IssueApi, IssueSample>>,
      <<IssueNotif, IssueNotifLow, IssueNotifBounce>>,
      <<IssueApi>>, <<IssueApiFew>>, <<IssueApiHalf>>, <<IssueApiUnder>> }

\* SQL NULL / Python None in avg_daily_incidents: AVG over no rows
NullAvg == -1

\* what get_historical_context can return
HistoryResults ==
    { [avg_daily_incidents |-> a, typical_resolution_time |-> 45] : a \in {NullAvg, 5, 20} }

----------------------------------------------------------------------------
(* The agent pipeline: orchestration                                        *)

\* TrendingIssueResolverAgent.initialize_session
initialize_session(st) ==
    Update(st, [exit_signal |-> FALSE, trend_threshold |-> 10,
                time_window_minutes |-> 60, summary |-> NoneVal,
                customer_context |-> NoneVal, kb_hits |-> NoneVal,
                final_resolution |-> NoneVal])

\* "if not context.session.state: initialize_session(context)"
SessionAtStart(st) == IF st = << >> THEN initialize_session(st) ELSE st

\* SignalWatcherLoopAgent.should_continue taken from a cleared flag
should_continue_Always(st) == TRUE

\* SignalWatcherLoopAgent.should_continue
should_continue(st) == ~Get(st, "exit_signal", FALSE)

\* sub_agents of ResolverPipelineAgent in the wrong order
ResolverPipelineSubAgents_Swapped == <<"resolution_generator", "knowledge_retrieval">>

\* sub_agents of ResolverPipelineAgent
ResolverPipelineSubAgents == <<"knowledge_retrieval", "resolution_generator">>

\* sub_agents of TrendingIssueResolverAgent, resolver_pipeline flattened
RootSubAgents ==
    <<"signal_watcher", "trend_summarizer", "context_fetcher">>
    \o ResolverPipelineSubAgents
    \o <<"response_memory", "notifier">>

\* where process() goes when sub-agent s has returned
StageAfter(s) ==
    LET i == CHOOSE k \in 1..Len(RootSubAgents) : RootSubAgents[k] = s IN
    IF i = Len(RootSubAgents) THEN "return" ELSE RootSubAgents[i + 1]

Raise(e) ==
    /\ pc' = "failed"
    /\ error' = e

\* TrendingIssueResolverAgent.process, up to the first sub-agent
Process ==
    /\ pc \in {"idle", "done", "failed"}
    /\ cycle < MaxCycles
    /\ state' = SessionAtStart(state)
    /\ cycle' = cycle + 1
    /\ iterations' = 0
    /\ ran' = << >>
    /\ error' = "none"
    /\ history_at_start' = response_history
    /\ hi_result' = "not_called"
    /\ pc' = "loop_check"
    /\ UNCHANGED <<tools, response_history, baseline_for>>
    /\ UNCHANGED outsidePipeline

\* the loop of SignalWatcherLoopAgent: another iteration while
\* should_continue, the next root sub-agent otherwise
LoopCheck ==
    /\ pc = "loop_check"
    /\ IF should_continue(state)
         THEN /\ iterations < MaxIterations
              /\ iterations' = iterations + 1
              /\ pc' = "data_fetcher"
         ELSE /\ iterations' = iterations
              /\ pc' = StageAfter("signal_watcher")
    /\ UNCHANGED <<state, tools, response_history, cycle, ran, error,
                   history_at_start, hi_result, baseline_for>>
    /\ UNCHANGED outsidePipeline

----------------------------------------------------------------------------
(* DataFetcherAgent.process                                                 *)

DataFetcherToolMissing ==
    /\ pc = "data_fetcher"
    /\ tools.bigquery_tool = "none"
    /\ Raise("RuntimeError: BigQuery tool not found")
    /\ UNCHANGED <<state, tools, response_history, cycle, iterations, ran,
                   history_at_start, hi_result, baseline_for>>
    /\ UNCHANGED outsidePipeline

\* the query of get_trending_issues fails
DataFetcherQueryFails ==
    /\ pc = "data_fetcher"
    /\ tools.bigquery_tool # "none"
    /\ Raise("BigQueryError")
    /\ UNCHANGED <<state, tools, response_history, cycle, iterations, ran,
                   history_at_start, hi_result, baseline_for>>
    /\ UNCHANGED outsidePipeline

\* a data fetcher that also rewrites the configured time window
DataFetcherState_Retunes(st, trending_issues, historical_context, now) ==
    LET st1 == Update(st, [trending_issues |-> trending_issues,
                           last_check_time |-> now,
                           time_window_minutes |-> 30])
    IN  IF trending_issues # << >>
          THEN Update(st1, [historical_context |-> historical_context])
          ELSE st1

\* the get_historical_context call of DataFetcherAgent.process: made for
\* trending_issues[0] when trends were found, not made otherwise
HistoryCall(last_call, trending_issues, historical_context, now) ==
    IF trending_issues # << >>
      THEN [ at |-> now,
             issue_type |-> trending_issues[1].issue_type,
             product_area |-> trending_issues[1].product_area,
             result |-> historical_context ]
      ELSE last_call

\* the session state DataFetcherAgent.process leaves
DataFetcherState(st, trending_issues, historical_context, now) ==
    LET st1 == Update(st, [trending_issues |-> trending_issues,
                           last_check_time |-> now])
    IN  IF trending_issues # << >>
          THEN Update(st1, [historical_context |-> historical_context])
          ELSE st1

\* get_trending_issues returned trends and the state was updated with them,
\* then the query of get_historical_context fails
DataFetcherHistoryFails ==
    /\ pc = "data_fetcher"
    /\ tools.bigquery_tool # "none"
    /\ \E trending_issues \in QueryResults \ {<< >>} :
         state' = Update(state, [trending_issues |-> trending_issues,
                                 last_check_time |-> <<cycle, iterations>>])
    /\ Raise("BigQueryError")
    /\ UNCHANGED <<tools, response_history, cycle, iterations, ran,
                   history_at_start, hi_result, baseline_for>>
    /\ UNCHANGED outsidePipeline

\* a data fetcher that reuses the baseline already in the session state
DataFetcher_KeepsBaseline ==
    /\ pc = "data_fetcher"
    /\ tools.bigquery_tool # "none"
    /\ \E trending_issues \in QueryResults, historical_context \in HistoryResults :
         IF "historical_context" \in DOMAIN state
           THEN /\ state' = DataFetcherState(state, trending_issues,
                                             state.historical_context,
                                             <<cycle, iterations>>)
                /\ baseline_for' = baseline_for
           ELSE /\ state' = DataFetcherState(state, trending_issues,
                                             historical_context,
                                             <<cycle, iterations>>)
                /\ baseline_for' = HistoryCall(baseline_for, trending_issues,
                                               historical_context,
                                               <<cycle, iterations>>)
    /\ ran' = Append(ran, "data_fetcher")
    /\ pc' = "exit_condition"
    /\ UNCHANGED <<tools, response_history, cycle, iterations, error,
                   history_at_start, hi_result>>
    /\ UNCHANGED outsidePipeline

\* DataFetcherAgent.process
DataFetcher ==
    /\ pc = "data_fetcher"
    /\ tools.bigquery_tool # "none"
    /\ \E trending_issues \in QueryResults, historical_context \in HistoryResults :
         /\ state' = DataFetcherState(state, trending_issues, historical_context,
                                      <<cycle, iterations>>)
         /\ baseline_for' = HistoryCall(baseline_for, trending_issues,
                                        historical_context, <<cycle, iterations>>)
    /\ ran' = Append(ran, "data_fetcher")
    /\ pc' = "exit_condition"
    /\ UNCHANGED <<tools, response_history, cycle, iterations, error,
                   history_at_start, hi_result>>
    /\ UNCHANGED outsidePipeline

----------------------------------------------------------------------------
(* ExitConditionAgent.process                                               *)

\* 1. severity-based escalation
SeverityRule(primary_issue) == primary_issue.severity \in {"critical", "high"}

\* 2. volume-based escalation; "if historical_context:" is false for the
\* default {} only
VolumeRuleRaises(historical_context) ==
    /\ historical_context # NoneVal
    /\ Get(historical_context, "avg_daily_incidents", 0) = NullAvg

VolumeRule(primary_issue, historical_context) ==
    /\ historical_context # NoneVal
    /\ primary_issue.count > Get(historical_context, "avg_daily_incidents", 0) * 2

\* 3. multiple trending issues
MultipleRule(trending_issues) == Len(trending_issues) > 2

\* 4. rapid increase: at least 5 incidents and at least half of them within
\* the last quarter of the time window
RecentCount(incidents, time_window) ==
    BagCardinality([age \in {a \in DOMAIN incidents : a * 4 <= time_window}
                       |-> incidents[age]])

\* the rapid rule asking for more than half of the incidents
RapidRule_Majority(primary_issue, time_window) ==
    /\ BagCardinality(primary_issue.incidents) >= 5
    /\ RecentCount(primary_issue.incidents, time_window) * 2
          > BagCardinality(primary_issue.incidents)

RapidRule(primary_issue, time_window) ==
    /\ BagCardinality(primary_issue.incidents) >= 5
    /\ RecentCount(primary_issue.incidents, time_window) * 2
          >= BagCardinality(primary_issue.incidents)

ExitShouldEscalate(st) ==
    LET trending_issues == Get(st, "trending_issues", << >>)
        primary_issue == trending_issues[1]
    IN  \/ SeverityRule(primary_issue)
        \/ VolumeRule(primary_issue, Get(st, "historical_context", NoneVal))
        \/ MultipleRule(trending_issues)
        \/ RapidRule(primary_issue, Get(st, "time_window_minutes", 60))

\* ExitConditionAgent.process with the exit signal raised on "no trend"
ExitConditionState_ExitOnNoTrend(st) ==
    IF Get(st, "trending_issues", << >>) = << >>
      THEN Update(st, [exit_signal |-> TRUE])
      ELSE Update(st, [exit_signal |-> ExitShouldEscalate(st)])

\* the session state ExitConditionAgent.process leaves: untouched on the
\* early return "No trends found - continue monitoring", exit_signal
\* overwritten otherwise
ExitConditionState(st) ==
    IF Get(st, "trending_issues", << >>) = << >>
      THEN st
      ELSE Update(st, [exit_signal |-> ExitShouldEscalate(st)])

ExitCondition ==
    /\ pc = "exit_condition"
    /\ IF /\ Get(state, "trending_issues", << >>) # << >>
          /\ VolumeRuleRaises(Get(state, "historical_context", NoneVal))
         THEN \* None * 2
              /\ Raise("TypeError")
              /\ UNCHANGED <<state, ran>>
         ELSE /\ state' = ExitConditionState(state)
              /\ ran' = Append(ran, "exit_condition")
              /\ pc' = "loop_check"
              /\ error' = error
    /\ UNCHANGED <<tools, response_history, cycle, iterations,
                   history_at_start, hi_result, baseline_for>>
    /\ UNCHANGED outsidePipeline

----------------------------------------------------------------------------
(* The knowledge store and the text-generation capability                   *)

\* kind "knowledge_base": read-only to the pipeline.  content is the set of
\* terms the lower-cased content contains.
Article(id, t, a, st, lu, terms) ==
    [id |-> id, issue_type |-> t, product_area |-> a, status |-> st,
     last_updated |-> lu, content |-> terms, success_rate |-> 90]

KnowledgeBase ==
    << Article("kb1", "authentication", "login", "active", 3, {"login", "timeout"}),
       Article("kb2", "authentication", "login", "active", 6, {"timeout"}),
       Article("kb3", "authentication", "login", "inactive", 9, {"login", "timeout"}),
       Article("kb4", "authentication", "login", "active", 2, {"password"}),
       Article("kb5", "authentication", "login", "active", 5, {"timeout", "login", "sso"}),
       Article("kb6", "authentication", "login", "active", 4, {"timeout"}),
       Article("kb7", "authentication", "login", "active", 1, {"login"}),
       Article("kb8", "authentication", "login", "active", 7, {"timeout"}),
       Article("kb9", "notification", "email", "active", 8, {"email", "delay"}),
       Article("kb10", "payment", "billing", "active", 2, {"card"}) >>

\* what keyword extraction can return (lower-cased terms)
KeywordLists ==
    { << >>, <<"timeout">>, <<"timeout", "login">>, <<"delay">>, <<"refund">> }

\* number of blank-line separated sections the generator's text can have
SectionCounts == {3, 5}

\* stable insertion sort of a sequence, descending by key
RECURSIVE InsertDesc(_, _, _)
InsertDesc(sorted, x, key) ==
    IF sorted = << >> THEN <<x>>
    ELSE IF Head(sorted)[key] >= x[key]
      THEN <<Head(sorted)>> \o InsertDesc(Tail(sorted), x, key)
    ELSE <<x>> \o sorted

RECURSIVE SortDesc(_, _)
SortDesc(seq, key) ==
    IF seq = << >> THEN << >>
    ELSE InsertDesc(SortDesc(SubSeq(seq, 1, Len(seq) - 1), key), seq[Len(seq)], key)

FirstN(seq, n) == SubSeq(seq, 1, IF Len(seq) < n THEN Len(seq) ELSE n)

\* search_knowledge_base without "query.order = [-last_updated]"
search_knowledge_base_Unordered(issue_type, product_area, keywords) ==
    LET entities ==
            SelectSeq(KnowledgeBase,
                      LAMBDA e : /\ e.issue_type = issue_type
                                 /\ e.product_area = product_area
                                 /\ e.status = "active")
        Score(e) == Cardinality({i \in 1..Len(keywords) : keywords[i] \in e.content})
        scored == [i \in 1..Len(entities) |->
                     entities[i] @@ [relevance_score |-> Score(entities[i])]]
        matches == SelectSeq(scored, LAMBDA e : e.relevance_score > 0)
    IN  FirstN(SortDesc(matches, "relevance_score"), 5)

\* DatastoreTool.search_knowledge_base
search_knowledge_base(issue_type, product_area, keywords) ==
    LET entities == SortDesc(
            SelectSeq(KnowledgeBase,
                      LAMBDA e : /\ e.issue_type = issue_type
                                 /\ e.product_area = product_area
                                 /\ e.status = "active"),
            "last_updated")
        Score(e) == Cardinality({i \in 1..Len(keywords) : keywords[i] \in e.content})
        scored == [i \in 1..Len(entities) |->
                     entities[i] @@ [relevance_score |-> Score(entities[i])]]
        matches == SelectSeq(scored, LAMBDA e : e.relevance_score > 0)
    IN  FirstN(SortDesc(matches, "relevance_score"), 5)

----------------------------------------------------------------------------
(* The response store                                                       *)

\* the keys save_response reads from issue_summary
SaveKeys == {"issue_type", "product_area", "count"}

\* DatastoreTool.save_response raises KeyError when issue_summary lacks a
\* key it reads; the double stores what it is given
SaveRaises(tool, issue_summary) ==
    tool = "DatastoreTool" /\ ~(SaveKeys \subseteq DOMAIN issue_summary)

\* the entity put by save_response; the id is the one the store generates
SavedEntity(store, issue_summary, resolution, channels, now) ==
    LET src == IF SaveKeys \subseteq DOMAIN issue_summary
                 THEN issue_summary
                 ELSE [issue_type |-> issue_summary.primary_issue.type,
                       product_area |-> issue_summary.primary_issue.product_area,
                       count |-> issue_summary.primary_issue.count]
    IN  [ id |-> Len(store) + 1,
          timestamp |-> now,
          issue_type |-> src.issue_type,
          product_area |-> src.product_area,
          issue_summary |-> issue_summary,
          resolution |-> resolution,
          channels |-> channels,
          metrics |-> [affected_customers |-> src.count] ]

save_response(store, issue_summary, resolution, channels, now) ==
    Append(store, SavedEntity(store, issue_summary, resolution, channels, now))

\* get_similar_responses: same issue_type and product_area, newest first
get_similar_responses(store, issue_type, product_area) ==
    SortDesc(SelectSeq(store, LAMBDA e : /\ e.issue_type = issue_type
                                         /\ e.product_area = product_area),
             "timestamp")

\* an update that ignores the id and stamps every entity of the kind
update_response_metrics_AllEntities(store, response_id, metrics, now) ==
    [i \in 1..Len(store) |->
        [metrics |-> metrics, last_updated |-> now] @@ store[i]]

\* update_response_metrics: the entity with this id gets new metrics and a
\* last_updated stamp, in place
update_response_metrics(store, response_id, metrics, now) ==
    [i \in 1..Len(store) |->
        IF store[i].id = response_id
          THEN [metrics |-> metrics, last_updated |-> now] @@ store[i]
          ELSE store[i]]


----------------------------------------------------------------------------
(* The stages after the monitoring loop                                     *)

Stay ==
    /\ UNCHANGED <<tools, cycle, iterations, history_at_start, hi_result, baseline_for>>
    /\ UNCHANGED outsidePipeline

Completed(stage) ==
    /\ ran' = Append(ran, stage)
    /\ pc' = StageAfter(stage)
    /\ error' = error

\* TrendSummarizerAgent.process
TrendSummarizer ==
    /\ pc = "trend_summarizer"
    /\ LET trending_issues == Get(state, "trending_issues", << >>) IN
       IF trending_issues = << >>
         THEN state' = state
         ELSE state' = Update(state,
                [summary |->
                   [text |-> "summary text",
                    primary_issue |->
                       [type |-> trending_issues[1].issue_type,
                        product_area |-> trending_issues[1].product_area,
                        severity |-> trending_issues[1].severity,
                        count |-> trending_issues[1].count],
                    total_issues |-> Len(trending_issues),
                    timestamp |-> cycle]])
    /\ Completed("trend_summarizer")
    /\ UNCHANGED response_history
    /\ Stay

\* ContextFetcherAgent.process: the stage between the summarizer and the
\* resolver pipeline; it owns customer_context only
ContextFetcher ==
    /\ pc = "context_fetcher"
    /\ state' = state
    /\ Completed("context_fetcher")
    /\ UNCHANGED response_history
    /\ Stay

\* KnowledgeRetrievalAgent.process
KnowledgeRetrievalToolMissing ==
    /\ pc = "knowledge_retrieval"
    /\ Get(state, "summary", NoneVal) # NoneVal
    /\ tools.datastore_tool = "none"
    /\ Raise("RuntimeError: Datastore tool not found")
    /\ UNCHANGED <<state, ran, response_history>>
    /\ Stay

\* the query of search_knowledge_base fails
KnowledgeRetrievalQueryFails ==
    /\ pc = "knowledge_retrieval"
    /\ Get(state, "summary", NoneVal) # NoneVal
    /\ tools.datastore_tool # "none"
    /\ Raise("DatastoreError")
    /\ UNCHANGED <<state, ran, response_history>>
    /\ Stay

KnowledgeRetrieval ==
    /\ pc = "knowledge_retrieval"
    /\ LET summary == Get(state, "summary", NoneVal) IN
       IF summary = NoneVal
         THEN state' = state
         ELSE /\ tools.datastore_tool # "none"
              /\ \E keywords \in KeywordLists :
                   LET kb_articles == search_knowledge_base(
                                         summary.primary_issue.type,
                                         summary.primary_issue.product_area,
                                         keywords)
                   IN  IF kb_articles = << >>
                         THEN state' = state
                         ELSE state' = Update(state,
                                [kb_hits |-> [articles |-> kb_articles,
                                              analysis |-> "analysis text",
                                              keywords_used |-> keywords]])
    /\ Completed("knowledge_retrieval")
    /\ UNCHANGED response_history
    /\ Stay

\* the resolution dict built from the generator's text of n sections
NewResolution(summary, kb_hits, n, now) ==
    [ issue_type |-> summary.primary_issue.type,
      product_area |-> summary.primary_issue.product_area,
      root_cause |-> IF n > 0 THEN "generated" ELSE "",
      steps |-> IF n > 1 THEN "generated" ELSE "",
      verification |-> IF n > 2 THEN "generated" ELSE "",
      prevention |-> IF n > 3 THEN "generated" ELSE "",
      communication_template |-> IF n > 4 THEN "generated" ELSE "",
      kb_articles_used |->
          ListVal([i \in 1..Len(kb_hits.articles) |-> kb_hits.articles[i].id]),
      generated_at |-> now ]

Channels == <<"ui", "email", "crm">>

\* ResolutionGeneratorAgent.process
ResolutionGenerator ==
    /\ pc = "resolution_generator"
    /\ LET summary == Get(state, "summary", NoneVal)
           kb_hits == Get(state, "kb_hits", NoneVal)
       IN
       IF summary = NoneVal \/ kb_hits = NoneVal
         THEN /\ state' = state
              /\ response_history' = response_history
              /\ Completed("resolution_generator")
         ELSE \E n \in SectionCounts :
              LET resolution == NewResolution(summary, kb_hits, n, cycle) IN
              IF tools.datastore_tool = "none"
                THEN /\ state' = Update(state, [final_resolution |-> resolution])
                     /\ response_history' = response_history
                     /\ Completed("resolution_generator")
              ELSE IF SaveRaises(tools.datastore_tool, summary)
                THEN \* final_resolution is already written when save raises
                     /\ state' = Update(state, [final_resolution |-> resolution])
                     /\ response_history' = response_history
                     /\ Raise("KeyError")
                     /\ ran' = ran
                ELSE \* saved, then resolution["id"] = resolution_id
                     /\ response_history' =
                          save_response(response_history, summary, resolution,
                                        Channels, cycle)
                     /\ state' = Update(state,
                          [final_resolution |->
                             [id |-> Len(response_history) + 1] @@ resolution])
                     /\ Completed("resolution_generator")
    /\ Stay

\* a consistency check that also restamps the resolution it amends
_check_consistency_Restamp(current_resolution, past_responses, changes_needed, m) ==
    IF past_responses = << >> THEN current_resolution
    ELSE IF changes_needed /\ m >= 5
      THEN [ root_cause |-> "updated", steps |-> "updated",
             verification |-> "updated", prevention |-> "updated",
             communication_template |-> "updated",
             consistency_changes |-> "suggested changes",
             generated_at |-> 0 ] @@ current_resolution
    ELSE current_resolution

\* ResponseMemoryAgent._check_consistency: changes_needed is whether the
\* comparison text contains "suggested changes", m the number of sections of
\* the updated text
_check_consistency(current_resolution, past_responses, changes_needed, m) ==
    IF past_responses = << >> THEN current_resolution
    ELSE IF changes_needed /\ m >= 5
      THEN [ root_cause |-> "updated", steps |-> "updated",
             verification |-> "updated", prevention |-> "updated",
             communication_template |-> "updated",
             consistency_changes |-> "suggested changes" ] @@ current_resolution
    ELSE current_resolution

\* ResponseMemoryAgent.process
ResponseMemoryToolMissing ==
    /\ pc = "response_memory"
    /\ Get(state, "final_resolution", NoneVal) # NoneVal
    /\ tools.firestore_tool = "none"
    /\ Raise("RuntimeError: Firestore tool not found")
    /\ UNCHANGED <<state, ran, response_history>>
    /\ Stay

\* a reconciliation that amends without updating the stored metrics
ResponseMemory_NoFlag ==
    /\ pc = "response_memory"
    /\ LET resolution == Get(state, "final_resolution", NoneVal) IN
       IF resolution = NoneVal
         THEN /\ state' = state
              /\ response_history' = response_history
              /\ Completed("response_memory")
         ELSE /\ tools.firestore_tool # "none"
              /\ LET past_responses ==
                       get_similar_responses(response_history,
                                             resolution.issue_type,
                                             resolution.product_area)
                 IN
                 IF past_responses = << >>
                   THEN /\ state' = state
                        /\ response_history' = response_history
                        /\ Completed("response_memory")
                   ELSE \E changes_needed \in BOOLEAN, m \in SectionCounts :
                        LET consistent_resolution ==
                              _check_consistency(resolution, past_responses,
                                                 changes_needed, m)
                        IN
                        /\ state' = Update(state,
                              [final_resolution |-> consistent_resolution])
                        /\ IF "consistency_changes" \in DOMAIN consistent_resolution
                             THEN IF "id" \in DOMAIN resolution
                                    THEN /\ response_history' = response_history
                                         /\ Completed("response_memory")
                                    ELSE /\ response_history' = response_history
                                         /\ Raise("KeyError")
                                         /\ ran' = ran
                             ELSE /\ response_history' = response_history
                                  /\ Completed("response_memory")
    /\ Stay

\* ResponseMemoryAgent.process
ResponseMemory ==
    /\ pc = "response_memory"
    /\ LET resolution == Get(state, "final_resolution", NoneVal) IN
       IF resolution = NoneVal
         THEN /\ state' = state
              /\ response_history' = response_history
              /\ Completed("response_memory")
         ELSE /\ tools.firestore_tool # "none"
              /\ LET past_responses ==
                       get_similar_responses(response_history,
                                             resolution.issue_type,
                                             resolution.product_area)
                 IN
                 IF past_responses = << >>
                   THEN /\ state' = state
                        /\ response_history' = response_history
                        /\ Completed("response_memory")
                   ELSE \E changes_needed \in BOOLEAN, m \in SectionCounts :
                        LET consistent_resolution ==
                              _check_consistency(resolution, past_responses,
                                                 changes_needed, m)
                        IN
                        /\ state' = Update(state,
                              [final_resolution |-> consistent_resolution])
                        /\ IF "consistency_changes" \in DOMAIN consistent_resolution
                             THEN IF "id" \in DOMAIN resolution
                                    THEN /\ response_history' =
                                              update_response_metrics(
                                                response_history, resolution.id,
                                                [consistency_adjusted |-> TRUE,
                                                 adjustment_reason |->
                                                   consistent_resolution.consistency_changes],
                                                cycle)
                                         /\ Completed("response_memory")
                                    ELSE /\ response_history' = response_history
                                         /\ Raise("KeyError")
                                         /\ ran' = ran
                             ELSE /\ response_history' = response_history
                                  /\ Completed("response_memory")
    /\ Stay

\* a notifier whose dashboard channel reports success without a resolution
Notifier_UiUngated ==
    /\ pc = "notifier"
    /\ LET resolution == Get(state, "final_resolution", NoneVal)
           summary == Get(state, "summary", NoneVal)
       IN  state' = Update(state,
              [notifications_sent |->
                  [ui |-> TRUE,
                   email |-> resolution # NoneVal,
                   crm |-> resolution # NoneVal /\ summary # NoneVal]])
    /\ Completed("notifier")
    /\ UNCHANGED response_history
    /\ Stay

\* NotifierAgent.process with its three sub-agents
Notifier ==
    /\ pc = "notifier"
    /\ LET resolution == Get(state, "final_resolution", NoneVal)
           summary == Get(state, "summary", NoneVal)
       IN  state' = Update(state,
              [notifications_sent |->
                  [ui |-> resolution # NoneVal,
                   email |-> resolution # NoneVal,
                   crm |-> resolution # NoneVal /\ summary # NoneVal]])
    /\ Completed("notifier")
    /\ UNCHANGED response_history
    /\ Stay

\* TrendingIssueResolverAgent.process returns
Return ==
    /\ pc = "return"
    /\ pc' = "done"
    /\ UNCHANGED <<state, tools, response_history, cycle, iterations, ran,
                   error, history_at_start, hi_result, baseline_for>>
    /\ UNCHANGED outsidePipeline

\* HumanInterventionAgent.process, not a sub-agent of the root: it can be run
\* on the session between two stages.  On this pipeline's resolution
\* (kb_articles_used is a list) _should_escalate raises.
HumanIntervention ==
    /\ pc \notin {"idle", "done", "failed"}
    /\ hi_result = "not_called"
    /\ LET summary == Get(state, "summary", NoneVal)
           resolution == Get(state, "final_resolution", NoneVal)
       IN
       IF summary = NoneVal \/ resolution = NoneVal
         THEN hi_result' = "skipped"
         ELSE LET escalation_decision ==
                     _should_escalate(summary.primary_issue, resolution)
              IN  hi_result' = IF "raised" \in DOMAIN escalation_decision
                                 THEN escalation_decision.raised
                                 ELSE "evaluated"
    /\ UNCHANGED <<pc, state, tools, response_history, cycle, iterations, ran,
                   error, history_at_start, baseline_for>>
    /\ UNCHANGED outsidePipeline

----------------------------------------------------------------------------
(* Spec: cycles of the agent pipeline on one session                        *)

ScoreIdle ==
    /\ hi_issue = NoneVal
    /\ hi_resolution = NoneVal
    /\ hi_decision = NoneVal

Init ==
    /\ PipelineIdle
    /\ InterveneIdle
    /\ tools \in ToolSets
    /\ ScoreIdle
    /\ RunFinalIdle
    /\ TrendIdle
    /\ RankIdle

Next ==
    \/ Process
    \/ LoopCheck
    \/ DataFetcherToolMissing
    \/ DataFetcherQueryFails
    \/ DataFetcherHistoryFails
    \/ DataFetcher
    \/ ExitCondition
    \/ TrendSummarizer
    \/ ContextFetcher
    \/ KnowledgeRetrievalToolMissing
    \/ KnowledgeRetrievalQueryFails
    \/ KnowledgeRetrieval
    \/ ResolutionGenerator
    \/ ResponseMemoryToolMissing
    \/ ResponseMemory
    \/ Notifier
    \/ Return
    \/ HumanIntervention

Spec == Init /\ [][Next]_vars


----------------------------------------------------------------------------
(* Claims about the agent pipeline                                          *)

TrendingIssues == Get(state, "trending_issues", << >>)
ExitSignal == Get(state, "exit_signal", FALSE)
Summary == Get(state, "summary", NoneVal)
KbHits == Get(state, "kb_hits", NoneVal)
FinalResolution == Get(state, "final_resolution", NoneVal)

LoopStages == {"data_fetcher", "exit_condition"}

\* the stages that completed in this cycle after the monitoring loop
PostLoop == SelectSeq(ran, LAMBDA x : x \notin LoopStages)

IsPrefix(a, b) == Len(a) <= Len(b) /\ a = SubSeq(b, 1, Len(a))

\* the loop check that follows an iteration in which no trend was found
AfterNoTrendIteration ==
    /\ pc = "loop_check"
    /\ iterations > 0
    /\ ran # << >> /\ ran[Len(ran)] = "exit_condition"
    /\ TrendingIssues = << >>

Orig_C3 ==
    (ran # << >> /\ ran[Len(ran)] = "resolution_generator" /\ FinalResolution # NoneVal)
      => \/ hi_result = "evaluated"
         \/ \E i \in 1..Len(ran) :
               /\ ran[i] \in {"exit_condition", "human_intervention"}
               /\ \E j \in 1..(i - 1) : ran[j] = "knowledge_retrieval"

\* C3 amended: once the monitoring loop is left, the stages run one after
\* another in the fixed order summarize, fetch context, rank remedies,
\* generate resolution, reconcile, notify, each at most once and none before
\* its predecessor has finished; no escalation is evaluated between ranking
\* and generation: the human-intervention scoring evaluates only when a
\* final resolution already exists.
Thm_C3 ==
    /\ IsPrefix(PostLoop,
                <<"trend_summarizer", "context_fetcher", "knowledge_retrieval",
                  "resolution_generator", "response_memory", "notifier">>)
    /\ \A i, j \in 1..Len(ran) :
          (i < j /\ ran[j] \in LoopStages) => ran[i] \in LoopStages
    /\ hi_result \notin {"not_called", "skipped"} => FinalResolution # NoneVal
    /\ pc \in {"trend_summarizer", "context_fetcher", "knowledge_retrieval",
               "resolution_generator", "response_memory", "notifier"}
          => IsPrefix(PostLoop \o <<pc>>,
                <<"trend_summarizer", "context_fetcher", "knowledge_retrieval",
                  "resolution_generator", "response_memory", "notifier">>)

\* a cycle that ran every stage and notified a resolution
Wit_C3 ==
    /\ pc = "done"
    /\ PostLoop = <<"trend_summarizer", "context_fetcher", "knowledge_retrieval",
                    "resolution_generator", "response_memory", "notifier">>
    /\ FinalResolution # NoneVal
    /\ state.notifications_sent.ui

\* C5: a cycle that failed has persisted nothing; the stores are as they were
\* at cycle start.
Orig_C5 == pc = "failed" => response_history = history_at_start

Without(rec, keys) == [k \in (DOMAIN rec) \ keys |-> rec[k]]

Orig_C7 ==
    (pc = "loop_check" /\ iterations = 0 /\ ran = << >>) =>
        /\ ~ExitSignal
        /\ Summary = NoneVal
        /\ KbHits = NoneVal
        /\ FinalResolution = NoneVal

----------------------------------------------------------------------------
(* run_final.py: main() and its four steps                                  *)

RfCategories == {"authentication", "payment", "database", "notification"}

\* rows the trending query can put first: category, priority and a count of
\* at least 3 (HAVING COUNT(*) >= 3)
RfRows ==
    { [category |-> c, content |-> "issue content", priority |-> p,
       occurrence_count |-> n] :
         c \in RfCategories, p \in 1..4, n \in {3, 45, 60} }

\* results of the trending query (LIMIT 3, only results[0] is used)
RfResults == { << >> } \cup { <<r>> : r \in RfRows }

category_mapping(category) ==
    CASE category = "authentication" -> "user_management"
      [] category = "payment"        -> "billing"
      [] category = "database"       -> "infrastructure"
      [] OTHER                       -> "platform"

\* the trending_issue dict built from the top row
RfTrendingIssue(top_issue) ==
    [ issue_type |-> top_issue.category,
      product_area |-> category_mapping(top_issue.category),
      description |-> top_issue.content,
      severity |-> IF top_issue.priority >= 3 THEN "high" ELSE "medium",
      count |-> top_issue.occurrence_count ]

RfArticleOf(entity) ==
    [ title |-> entity.id, content |-> "content", success_rate |-> entity.success_rate ]

\* the default article of search_knowledge_base ("No KB articles found,
\* creating default resolution")
RfDefaultGuide ==
    [title |-> "Resolution Guide",
     content |-> "Standard resolution procedure",
     success_rate |-> 80]

\* search_knowledge_base when the knowledge store answers: exact match on
\* (issue_type, product_area), then issue_type only, then the default guide
RfSearchArticles(issue_type, product_area) ==
    LET exact == FirstN(SelectSeq(KnowledgeBase,
                         LAMBDA e : /\ e.issue_type = issue_type
                                    /\ e.product_area = product_area
                                    /\ e.status = "active"), 3)
        by_type == FirstN(SelectSeq(KnowledgeBase,
                         LAMBDA e : /\ e.issue_type = issue_type
                                    /\ e.status = "active"), 3)
        entities == IF exact # << >> THEN exact ELSE by_type
    IN  IF entities # << >>
          THEN [i \in 1..Len(entities) |-> RfArticleOf(entities[i])]
          ELSE << RfDefaultGuide >>

\* the article the except branch of search_knowledge_base returns
RfFallbackOnError ==
    << [title |-> "Standard Resolution Guide",
        content |-> "Follow standard troubleshooting procedures for this issue type",
        success_rate |-> 75] >>

RfKeep == UNCHANGED outsideRunFinal

\* detect_trending_issues: the event store raises; main() prints the error
RfDetectFails ==
    /\ rf_pc = "start"
    /\ rf_pc' = "error"
    /\ UNCHANGED <<rf_issue, rf_articles, rf_resolution, rf_saved, rf_ds_failed>>
    /\ RfKeep

\* detect_trending_issues and the "if not issue: return" of main()
RfDetect ==
    /\ rf_pc = "start"
    /\ \E results \in RfResults :
         IF results = << >>
           THEN /\ rf_pc' = "no_trend"
                /\ rf_issue' = rf_issue
           ELSE /\ rf_pc' = "search"
                /\ rf_issue' = RfTrendingIssue(results[1])
    /\ UNCHANGED <<rf_articles, rf_resolution, rf_saved, rf_ds_failed>>
    /\ RfKeep

\* search_knowledge_base, the knowledge store answering
RfSearch ==
    /\ rf_pc = "search"
    /\ rf_articles' = RfSearchArticles(rf_issue.issue_type, rf_issue.product_area)
    /\ rf_pc' = "generate"
    /\ UNCHANGED <<rf_issue, rf_resolution, rf_saved, rf_ds_failed>>
    /\ RfKeep

\* search_knowledge_base, the knowledge store raising: the except branch
\* returns the fallback article and main() goes on
RfSearchFails ==
    /\ rf_pc = "search"
    /\ rf_ds_failed' = TRUE
    /\ rf_articles' = RfFallbackOnError
    /\ rf_pc' = "generate"
    /\ UNCHANGED <<rf_issue, rf_resolution, rf_saved>>
    /\ RfKeep

\* generate_resolution
RfGenerate ==
    /\ rf_pc = "generate"
    /\ rf_resolution' =
          [ issue_type |-> rf_issue.issue_type,
            product_area |-> rf_issue.product_area,
            resolution_text |-> "resolution report",
            generated_at |-> 1,
            kb_articles_used |-> Len(rf_articles),
            estimated_resolution_time |-> "15-30 minutes" ]
    /\ rf_pc' = "save"
    /\ UNCHANGED <<rf_issue, rf_articles, rf_saved, rf_ds_failed>>
    /\ RfKeep

\* save_resolution, the put succeeding
RfSave ==
    /\ rf_pc = "save"
    /\ rf_saved' = Append(rf_saved,
          [ issue_type |-> rf_issue.issue_type,
            product_area |-> rf_issue.product_area,
            issue_summary |-> rf_issue,
            resolution |-> rf_resolution,
            channels |-> <<"console", "dashboard">>,
            metrics |-> [affected_customers |-> rf_issue.count,
                         kb_articles_used |-> rf_resolution.kb_articles_used] ])
    /\ rf_pc' = "done"
    /\ UNCHANGED <<rf_issue, rf_articles, rf_resolution, rf_ds_failed>>
    /\ RfKeep

\* save_resolution, the store raising: a warning is printed, main() goes on
RfSaveFails ==
    /\ rf_pc = "save"
    /\ rf_pc' = "done"
    /\ UNCHANGED <<rf_issue, rf_articles, rf_resolution, rf_saved, rf_ds_failed>>
    /\ RfKeep

InitRunFinal ==
    /\ RunFinalIdle
    /\ PipelineIdle
    /\ InterveneIdle
    /\ NoTools
    /\ ScoreIdle
    /\ TrendIdle
    /\ RankIdle

NextRunFinal ==
    \/ RfDetectFails
    \/ RfDetect
    \/ RfSearch
    \/ RfSearchFails
    \/ RfGenerate
    \/ RfSave
    \/ RfSaveFails

SpecRunFinal == InitRunFinal /\ [][NextRunFinal]_vars

\* C4: when the knowledge store is unavailable, the cycle ends in a reported
\* failure and emits no resolution; no fallback article is substituted for
\* the unavailable store.
Orig_C4 ==
    rf_ds_failed =>
        /\ rf_pc = "error"
        /\ rf_articles = << >>
        /\ rf_resolution = NoneVal
        /\ rf_saved = << >>

----------------------------------------------------------------------------
(* The volume rule and the empty baseline                                   *)

HistoricalContext == Get(state, "historical_context", NoneVal)

\* the baseline of a category without history: the aggregate row of
\* get_historical_context has no average
EmptyBaseline ==
    /\ HistoricalContext # NoneVal
    /\ HistoricalContext.avg_daily_incidents = NullAvg

\* C11: the volume rule triggers only on a positive baseline with
\* count > 2 x average; on an empty baseline the rule is disabled: the exit
\* condition stage completes and its exit decision is the one of the other
\* rules alone, whatever the count.
Orig_C11 ==
    [][ (/\ pc = "exit_condition"
         /\ TrendingIssues # << >>
         /\ EmptyBaseline)
        => /\ pc' = "loop_check"
           /\ ExitSignal' = (\/ SeverityRule(TrendingIssues[1])
                             \/ MultipleRule(TrendingIssues)
                             \/ RapidRule(TrendingIssues[1],
                                          Get(state, "time_window_minutes", 60))) ]_vars

----------------------------------------------------------------------------
(* BigQueryTool.get_trending_issues over the rows of the issues table       *)

MaxEvents == 4

TrIssueTypes == {"authentication", "payment"}
TrDescriptions == {"Users unable to login", "Payment processing errors"}
TrSeverities == {"high", "medium"}

TrProductArea(issue_type) ==
    IF issue_type = "authentication" THEN "login" ELSE "billing"

\* the GROUP BY key of a row: issue_type, product_area, description, severity
TrKey(e) ==
    [issue_type |-> e.issue_type, product_area |-> e.product_area,
     description |-> e.description, severity |-> e.severity]

TrKeys(events) == { TrKey(events[i]) : i \in 1..Len(events) }

\* ARRAY_AGG(STRUCT(customer_id, timestamp, details)) of a group
TrIncidents(events, k) == SelectSeq(events, LAMBDA e : TrKey(e) = k)

\* one row of recent_issues
TrRow(events, k) ==
    [issue_type |-> k.issue_type, product_area |-> k.product_area,
     description |-> k.description, severity |-> k.severity,
     count |-> Len(TrIncidents(events, k)),
     incidents |-> [i \in 1..Len(TrIncidents(events, k)) |->
                       [customer_id |-> TrIncidents(events, k)[i].customer_id,
                        timestamp |-> TrIncidents(events, k)[i].timestamp]]]

\* recent_issues: GROUP BY ... HAVING COUNT(*) >= min_occurrences
recent_issues(events, min_occurrences) ==
    { r \in { TrRow(events, k) : k \in TrKeys(events) } :
         r.count >= min_occurrences }

\* ORDER BY occurrence_count DESC: every order of the rows in which the count
\* never increases; rows of equal count come in the order the engine likes
OrderedByCountDesc(rows) ==
    { o \in [1..Cardinality(rows) -> rows] :
         /\ \A i, j \in DOMAIN o : i # j => o[i] # o[j]
         /\ \A i, j \in DOMAIN o : i < j => o[i].count >= o[j].count }

\* a row is written to the issues table
TrInsert ==
    /\ Len(tr_events) < MaxEvents
    /\ \E t \in TrIssueTypes, d \in TrDescriptions, sev \in TrSeverities :
         tr_events' = Append(tr_events,
            [issue_type |-> t, product_area |-> TrProductArea(t),
             description |-> d, severity |-> sev,
             customer_id |-> Len(tr_events) + 1,
             timestamp |-> Len(tr_events) + 1])
    /\ tr_result' = << >>
    /\ tr_min' = 0
    /\ UNCHANGED outsideTrend

\* BigQueryTool.get_trending_issues(min_occurrences)
GetTrendingIssues ==
    /\ tr_min = 0
    /\ \E min_occurrences \in 1..2 :
         /\ tr_min' = min_occurrences
         /\ tr_result' \in OrderedByCountDesc(recent_issues(tr_events, min_occurrences))
    /\ UNCHANGED tr_events
    /\ UNCHANGED outsideTrend

InitTrend ==
    /\ TrendIdle
    /\ RankIdle
    /\ PipelineIdle
    /\ InterveneIdle
    /\ NoTools
    /\ ScoreIdle
    /\ RunFinalIdle

NextTrend ==
    \/ TrInsert
    \/ GetTrendingIssues

SpecTrend == InitTrend /\ [][NextTrend]_vars

\* rank of a severity label, highest first
SeverityRank(severity) ==
    CASE severity = "critical" -> 4
      [] severity = "high"     -> 3
      [] severity = "medium"   -> 2
      [] OTHER                 -> 1

\* timestamp of the first incident of a trend
FirstSeen(row) == row.incidents[1].timestamp

\* a comes before b by count, then severity, then first-seen timestamp
Precedes(a, b) ==
    \/ a.count > b.count
    \/ a.count = b.count /\ SeverityRank(a.severity) > SeverityRank(b.severity)
    \/ /\ a.count = b.count
       /\ SeverityRank(a.severity) = SeverityRank(b.severity)
       /\ FirstSeen(a) <= FirstSeen(b)

\* C12: the primary signal (first element of the result) has the maximum
\* count, ties broken by highest severity, then by earliest first-seen
\* timestamp.
Orig_C12 ==
    (tr_min > 0 /\ tr_result # << >>) =>
        \A i \in 2..Len(tr_result) : Precedes(tr_result[1], tr_result[i])

----------------------------------------------------------------------------
(* What knowledge retrieval hands to the rest of the pipeline               *)

\* C13: rank never returns an article with relevance_score 0, and when no
\* candidate has a positive score the result handed on is the single
\* standard resolution guide (success_rate 80), never an empty or missing
\* result: when the generator starts on a summarized trend, kb_hits holds
\* either positively scored articles or that one guide.
Orig_C13 ==
    (pc = "resolution_generator" /\ Summary # NoneVal) =>
        /\ KbHits # NoneVal
        /\ KbHits.articles # << >>
        /\ \/ KbHits.articles = << RfDefaultGuide >>
           \/ \A i \in 1..Len(KbHits.articles) :
                 KbHits.articles[i].relevance_score > 0

----------------------------------------------------------------------------
(* DatastoreTool.search_knowledge_base as a function of its arguments       *)

RankVocabulary == {"timeout", "login", "delay", "card", "refund"}

\* keyword lists of up to two terms
RankKeywordLists ==
    { << >> } \cup { <<a>> : a \in RankVocabulary }
              \cup { <<a, b>> : a \in RankVocabulary, b \in RankVocabulary }

RankQueries ==
    { [issue_type |-> t, product_area |-> a, keywords |-> k] :
         t \in {"authentication", "notification", "payment"},
         a \in {"login", "email", "billing"},
         k \in RankKeywordLists }

\* the call of search_knowledge_base
SearchKnowledgeBase ==
    /\ ~rk_done
    /\ rk_result' = search_knowledge_base(rk_query.issue_type,
                                          rk_query.product_area,
                                          rk_query.keywords)
    /\ rk_done' = TRUE
    /\ UNCHANGED rk_query
    /\ UNCHANGED outsideRank

InitRank ==
    /\ rk_query \in RankQueries
    /\ rk_done = FALSE
    /\ rk_result = << >>
    /\ PipelineIdle
    /\ InterveneIdle
    /\ NoTools
    /\ ScoreIdle
    /\ RunFinalIdle
    /\ TrendIdle

NextRank == SearchKnowledgeBase

SpecRank == InitRank /\ [][NextRank]_vars

\* the active articles of the category, most recently updated first
ActiveArticles(issue_type, product_area) ==
    SortDesc(SelectSeq(KnowledgeBase,
                       LAMBDA e : /\ e.issue_type = issue_type
                                  /\ e.product_area = product_area
                                  /\ e.status = "active"),
             "last_updated")

WithoutScore(articles) ==
    [i \in 1..Len(articles) |-> Without(articles[i], {"relevance_score"})]

\* C14: with an empty keyword set the ranker returns up to 5 of the most
\* recently updated active articles of the category, unscored, and never an
\* empty result while such articles exist.
Orig_C14 ==
    (rk_done /\ rk_query.keywords = << >>) =>
        WithoutScore(rk_result)
           = FirstN(ActiveArticles(rk_query.issue_type, rk_query.product_area), 5)

----------------------------------------------------------------------------
(* The reconciliation stage                                                 *)

\* the responses of the category that were in the store when the cycle
\* started
PriorResponses(resolution) ==
    get_similar_responses(history_at_start, resolution.issue_type,
                          resolution.product_area)

PreservedFields == {"issue_type", "product_area", "kb_articles_used", "generated_at"}

\* C16: whatever the comparison says, the consistency checker leaves the
\* category, kb_articles_used and generated_at of the resolution as they
\* were, also when it substitutes an amended body.
Thm_C16 ==
    [][ (pc = "response_memory" /\ FinalResolution # NoneVal)
        => /\ FinalResolution' # NoneVal
           /\ \A f \in PreservedFields :
                 FinalResolution'[f] = FinalResolution[f] ]_vars

\* the reconciliation stage has completed with an amended body
Wit_C16 ==
    /\ pc = "notifier"
    /\ FinalResolution # NoneVal
    /\ "consistency_changes" \in DOMAIN FinalResolution
    /\ FinalResolution.root_cause = "updated"

\* the registry TrendingIssueResolverAgent._setup_tools builds
SetupTools ==
    [bigquery_tool |-> "BigQueryTool", datastore_tool |-> "DatastoreTool",
     firestore_tool |-> "none"]

\* sub-agent stage has completed in this cycle
Ran(stage) == \E i \in 1..Len(ran) : ran[i] = stage

\* C17: under the tools the orchestrator registers itself, a cycle in which
\* a resolution has been generated is never blocked: it does not fail in the
\* stages after knowledge retrieval but goes on to notification.
Orig_C17 ==
    (/\ tools = SetupTools
     /\ Ran("knowledge_retrieval")
     /\ FinalResolution # NoneVal)
    => pc # "failed"

\* C18: when run-state holds a final resolution, the ResponseMemory stage
\* saves the response through save_response exactly once: the stage
\* completes with one more record in the store, holding that resolution.
Orig_C18 ==
    [][ (/\ pc = "response_memory"
         /\ FinalResolution # NoneVal
         /\ pc' = StageAfter("response_memory"))
        => /\ Len(response_history') = Len(response_history) + 1
           /\ response_history'[Len(response_history')].resolution
                 = Without(FinalResolution', {"id"}) ]_vars

----------------------------------------------------------------------------
(* Which stage writes which field of the session state                      *)

\* the keys of the session state a step has added or overwritten
ChangedKeys(st, st2) ==
    { k \in (DOMAIN st) \cup (DOMAIN st2) :
         \/ k \notin DOMAIN st
         \/ k \notin DOMAIN st2
         \/ st[k] # st2[k] }

\* the fields each stage is responsible for, the reconciliation stage
\* owning none
OwnFields(stage) ==
    CASE stage = "data_fetcher" ->
             {"trending_issues", "last_check_time", "historical_context"}
      [] stage = "exit_condition"       -> {"exit_signal"}
      [] stage = "trend_summarizer"     -> {"summary"}
      [] stage = "context_fetcher"      -> {"customer_context"}
      [] stage = "knowledge_retrieval"  -> {"kb_hits"}
      [] stage = "resolution_generator" -> {"final_resolution"}
      [] stage = "notifier"             -> {"notifications_sent"}
      [] OTHER                          -> {}

\* the fields each stage writes
WrittenFields(stage) ==
    IF stage = "response_memory" THEN {"final_resolution"} ELSE OwnFields(stage)

Running == pc \notin {"idle", "done", "failed"}

\* C19: every stage writes only its own fields of the run-state;
\* final_resolution is written by the generator alone and the data
\* fetcher stores exactly what the event store returned.
Orig_C19 ==
    [][ Running =>
          /\ ChangedKeys(state, state') \subseteq OwnFields(pc)
          /\ (pc = "data_fetcher" /\ pc' = "exit_condition")
                => TrendingIssues' \in QueryResults ]_vars

\* C19 amended: every stage writes only its own fields of the run-state,
\* except that final_resolution has two writers: the generator creates it
\* and the response memory stage overwrites it with the reconciled
\* resolution; the data fetcher stores exactly what the event store returned.
Thm_C19 ==
    [][ Running =>
          /\ ChangedKeys(state, state') \subseteq WrittenFields(pc)
          /\ (pc = "data_fetcher" /\ pc' = "exit_condition")
                => TrendingIssues' \in QueryResults ]_vars

\* a cycle has completed in which every stage wrote its field and the
\* response memory stage overwrote final_resolution
Wit_C19 ==
    /\ pc = "done"
    /\ Summary # NoneVal
    /\ KbHits # NoneVal
    /\ FinalResolution # NoneVal
    /\ "consistency_changes" \in DOMAIN FinalResolution
    /\ "notifications_sent" \in DOMAIN state

----------------------------------------------------------------------------
(* The rules that make up the escalation score                              *)

CountPoints(issue) ==
    IF Get(issue, "count", 0) > 100 THEN 3
    ELSE IF Get(issue, "count", 0) > 50 THEN 2
    ELSE 0

CriticalPoints(issue) ==
    IF Get(issue, "issue_type", "") \in {"database", "authentication", "payment"}
      THEN 2 ELSE 0

ConfidencePoints(resolution) ==
    LET n == Get(resolution, "kb_articles_used", IntVal(0)).n IN
    IF n = 0 THEN 2 ELSE IF n < 2 THEN 1 ELSE 0

\* points of a cascade: the count tier and the critical category both fired
CascadePoints(issue) ==
    IF CountPoints(issue) > 0 /\ CriticalPoints(issue) > 0 THEN 2 ELSE 0

UnknownPoints(resolution) ==
    IF ContainsUnknownLower(Get(resolution, "resolution_text", "")) THEN 3 ELSE 0

Fired(points) == IF points > 0 THEN 1 ELSE 0

\* C20: the score is exactly the sum of the rules of the rule table, each
\* contributing independently of the others; of the six, the count tiers,
\* the category criticality and the remedy confidence have their inputs
\* here, and nothing else adds to the score.
Orig_C20 ==
    Evaluated =>
        hi_decision.escalation_score
           = CountPoints(hi_issue) + CriticalPoints(hi_issue)
             + ConfidencePoints(hi_resolution)

\* C20 amended: the score is the sum of five rules: count tiers (+3 above
\* 100, else +2 above 50), critical category (+2), cascade (+2 when the two
\* former both fired), remedy confidence (+2 for 0 articles, +1 for 1) and
\* "unknown" in the resolution text (+3); one reason is appended per rule
\* that fired; volume anomaly, concurrent trends and rapid onset add nothing.
Thm_C20 ==
    Evaluated =>
        /\ hi_decision.escalation_score
              = CountPoints(hi_issue) + CriticalPoints(hi_issue)
                + CascadePoints(hi_issue) + ConfidencePoints(hi_resolution)
                + UnknownPoints(hi_resolution)
        /\ Len(hi_decision.reasons)
              = Fired(CountPoints(hi_issue)) + Fired(CriticalPoints(hi_issue))
                + Fired(CascadePoints(hi_issue))
                + Fired(ConfidencePoints(hi_resolution))
                + Fired(UnknownPoints(hi_resolution))

\* a decision in which the cascade rule and the unknown-pattern rule fired
Wit_C20 ==
    /\ Evaluated
    /\ HasReason(hi_decision, "Multiple critical systems affected")
    /\ HasReason(hi_decision, "Unknown or novel issue pattern")
    /\ hi_decision.escalation_score = 12

----------------------------------------------------------------------------
(* The exit rules on concurrent trends and rapid onset                      *)

\* the categories among the trending rows
DistinctCategories(trending_issues) ==
    { [issue_type |-> trending_issues[i].issue_type,
       product_area |-> trending_issues[i].product_area] :
         i \in 1..Len(trending_issues) }

\* no rule of the exit condition other than "multiple trending issues" fires
OnlyMultipleRuleCanFire(st) ==
    LET trending_issues == Get(st, "trending_issues", << >>) IN
    /\ ~SeverityRule(trending_issues[1])
    /\ ~VolumeRule(trending_issues[1], Get(st, "historical_context", NoneVal))
    /\ ~RapidRule(trending_issues[1], Get(st, "time_window_minutes", 60))

\* C21: the multiple-concurrent-trends rule counts distinct trending
\* categories: it fires exactly when more than 2 distinct categories are
\* trending, and adds nothing when 2 or fewer are.
Orig_C21 ==
    [][ (/\ pc = "exit_condition"
         /\ pc' = "loop_check"
         /\ TrendingIssues # << >>
         /\ OnlyMultipleRuleCanFire(state))
        => (ExitSignal' <=> Cardinality(DistinctCategories(TrendingIssues)) > 2) ]_vars

\* number of incidents of a row, and of those at most `minutes` old
IncidentCount(row) == BagCardinality(row.incidents)

IncidentsWithin(row, minutes) ==
    BagCardinality([a \in {x \in DOMAIN row.incidents : x <= minutes}
                       |-> row.incidents[a]])

\* no rule of the exit condition other than "rapid increase" fires
OnlyRapidRuleCanFire(st) ==
    LET trending_issues == Get(st, "trending_issues", << >>) IN
    /\ ~SeverityRule(trending_issues[1])
    /\ ~VolumeRule(trending_issues[1], Get(st, "historical_context", NoneVal))
    /\ ~MultipleRule(trending_issues)

\* the primary signal has at least 5 incidents, at least half of them in
\* the last 15 minutes of the 60 minute window
RapidOnset(row) ==
    /\ IncidentCount(row) >= 5
    /\ 2 * IncidentsWithin(row, 15) >= IncidentCount(row)

\* C22: the rapid-onset rule triggers exactly when the primary signal has at
\* least 5 incidents of which at least half lie in the most recent 25% of
\* the window, and when it triggers it is a flat +2 on the score.
Orig_C22 ==
    [][ (/\ pc = "exit_condition"
         /\ pc' = "loop_check"
         /\ TrendingIssues # << >>
         /\ OnlyRapidRuleCanFire(state))
        => /\ ExitSignal' <=> RapidOnset(TrendingIssues[1])
           /\ RapidOnset(TrendingIssues[1])
                 => Get(state', "escalation_score", 0) = 2 ]_vars

\* C22 amended: the rapid-onset rule triggers exactly when the primary
\* signal has at least 5 incidents of which at least half lie in the most
\* recent 25% of the window; when it triggers it raises the exit signal of
\* the monitoring loop and writes nothing else: no score is added.
Thm_C22 ==
    [][ (/\ pc = "exit_condition"
         /\ pc' = "loop_check"
         /\ TrendingIssues # << >>
         /\ OnlyRapidRuleCanFire(state))
        => /\ ExitSignal' <=> RapidOnset(TrendingIssues[1])
           /\ ChangedKeys(state, state') \subseteq {"exit_signal"} ]_vars

\* the loop has been left on a primary signal that only the rapid rule
\* escalates, exactly half of its incidents being recent
Wit_C22 ==
    /\ pc = "trend_summarizer"
    /\ ExitSignal
    /\ TrendingIssues = <<IssueApiHalf>>
    /\ HistoricalContext.avg_daily_incidents = 20

----------------------------------------------------------------------------
(* Grouping of the rows by get_trending_issues                              *)

\* the rows of the table of one issue_type
CategoryEvents(events, t) == SelectSeq(events, LAMBDA e : e.issue_type = t)

\* the highest severity rank among rows
MaxSeverityRank(events) ==
    CHOOSE r \in { SeverityRank(events[i].severity) : i \in 1..Len(events) } :
        \A j \in 1..Len(events) : SeverityRank(events[j].severity) <= r

\* C23: aggregation groups by category only: the events of one category,
\* whatever their severity or content, give one signal whose count is their
\* total and whose severity is the highest among them, and min_occurrences
\* is compared with that total.
Orig_C23 ==
    tr_min > 0 =>
        \A t \in TrIssueTypes :
            LET events == CategoryEvents(tr_events, t)
                rows == { i \in 1..Len(tr_result) : tr_result[i].issue_type = t }
            IN  IF Len(events) > 0 /\ Len(events) >= tr_min
                  THEN /\ Cardinality(rows) = 1
                       /\ \A i \in rows :
                            /\ tr_result[i].count = Len(events)
                            /\ SeverityRank(tr_result[i].severity)
                                  = MaxSeverityRank(events)
                  ELSE rows = {}

----------------------------------------------------------------------------
(* The order of the ranked articles                                         *)

\* number of keywords of the list found in the content of an article
KeywordHits(article, keywords) ==
    Cardinality({ i \in 1..Len(keywords) : keywords[i] \in article.content })

\* a comes strictly before b: higher score, or equal score and more
\* recently updated
RanksBefore(score_a, updated_a, score_b, updated_b) ==
    \/ score_a > score_b
    \/ score_a = score_b /\ updated_a > updated_b

\* the articles of the knowledge base a query is about
Candidates(query) ==
    { i \in 1..Len(KnowledgeBase) :
         /\ KnowledgeBase[i].issue_type = query.issue_type
         /\ KnowledgeBase[i].product_area = query.product_area
         /\ KnowledgeBase[i].status = "active" }

\* C24: rank returns at most 5 articles, all active and of the requested
\* category, ordered by relevance_score descending and among equal scores
\* by last_updated descending, and no candidate left out would precede a
\* returned article in that order.
Thm_C24 ==
    rk_done =>
        /\ Len(rk_result) <= 5
        /\ \A i \in 1..Len(rk_result) :
              /\ \E c \in Candidates(rk_query) :
                    /\ KnowledgeBase[c].id = rk_result[i].id
                    /\ rk_result[i].relevance_score
                          = KeywordHits(KnowledgeBase[c], rk_query.keywords)
                    /\ rk_result[i].last_updated = KnowledgeBase[c].last_updated
              /\ \A j \in 1..Len(rk_result) :
                    i < j => /\ rk_result[i].id # rk_result[j].id
                             /\ ~RanksBefore(rk_result[j].relevance_score,
                                             rk_result[j].last_updated,
                                             rk_result[i].relevance_score,
                                             rk_result[i].last_updated)
        /\ \A c \in Candidates(rk_query) :
              (\A i \in 1..Len(rk_result) : rk_result[i].id # KnowledgeBase[c].id)
              => \A i \in 1..Len(rk_result) :
                    ~RanksBefore(KeywordHits(KnowledgeBase[c], rk_query.keywords),
                                 KnowledgeBase[c].last_updated,
                                 rk_result[i].relevance_score,
                                 rk_result[i].last_updated)

\* five articles returned out of six scored candidates, with equal scores
\* among them
Wit_C24 ==
    /\ rk_done
    /\ rk_query.keywords = <<"timeout", "login">>
    /\ Len(rk_result) = 5
    /\ rk_result[1].relevance_score = rk_result[2].relevance_score
    /\ rk_result[3].relevance_score = rk_result[5].relevance_score

----------------------------------------------------------------------------
(* Amendments of the consistency check                                      *)

\* the fields _check_consistency rewrites from the updated text
AmendedFields ==
    {"root_cause", "steps", "verification", "prevention",
     "communication_template"}

\* the resolution of run-state differs from what the generator wrote
Amended(resolution) ==
    \E f \in AmendedFields : resolution[f] = "updated"

\* the stored record of this resolution is flagged as adjusted
FlaggedAdjusted(resolution) ==
    /\ "id" \in DOMAIN resolution
    /\ \E i \in 1..Len(response_history) :
          /\ response_history[i].id = resolution.id
          /\ "consistency_adjusted" \in DOMAIN response_history[i].metrics
          /\ response_history[i].metrics.consistency_adjusted

----------------------------------------------------------------------------
(* The baseline the escalation check decides on                             *)

\* C26: in every state of a cycle started from a freshly initialized
\* run-state, exit_signal = true implies that trending_issues is non-empty
\* and that historical_context is the baseline fetched in the same loop
\* iteration for trending_issues[0].
Thm_C26 ==
    (cycle >= 1 /\ ExitSignal)
        => /\ TrendingIssues # << >>
           /\ baseline_for # NoneVal
           /\ baseline_for.at = state.last_check_time
           /\ baseline_for.issue_type = TrendingIssues[1].issue_type
           /\ baseline_for.product_area = TrendingIssues[1].product_area
           /\ "historical_context" \in DOMAIN state
           /\ state.historical_context = baseline_for.result

\* the exit signal raised by the second iteration of the first cycle, on the
\* baseline that iteration fetched
Wit_C26 ==
    /\ cycle = 1
    /\ ExitSignal
    /\ iterations = 2
    /\ pc = "loop_check"
    /\ TrendingIssues[1].issue_type = "authentication"
    /\ baseline_for.at = <<1, 2>>

----------------------------------------------------------------------------
(* Gates of the stages after the monitoring loop                            *)

NothingWritten ==
    /\ state' = state
    /\ response_history' = response_history

NotificationsSent(st) ==
    Get(st, "notifications_sent", [ui |-> FALSE, email |-> FALSE, crm |-> FALSE])

\* C27: downstream stages are gated on their predecessor's output: knowledge
\* retrieval does nothing without a summary, resolution generation writes
\* and persists nothing unless both summary and kb_hits exist,
\* reconciliation does nothing without a final resolution, and no
\* notification channel reports success unless a final resolution exists.
Thm_C27 ==
    [][ /\ (pc = "knowledge_retrieval" /\ Summary = NoneVal) => NothingWritten
        /\ (pc = "resolution_generator"
              /\ (Summary = NoneVal \/ KbHits = NoneVal)) => NothingWritten
        /\ (pc = "response_memory" /\ FinalResolution = NoneVal) => NothingWritten
        /\ (pc = "notifier" /\ FinalResolution = NoneVal)
              => /\ response_history' = response_history
                 /\ \A ch \in {"ui", "email", "crm"} :
                       ~NotificationsSent(state')[ch] ]_vars

\* a first cycle in which retrieval found no article: the generator, the
\* reconciliation and the notifier all ran and left no resolution, no
\* record and no successful notification
Wit_C27 ==
    /\ cycle = 1
    /\ pc = "return"
    /\ Summary # NoneVal
    /\ KbHits = NoneVal
    /\ FinalResolution = NoneVal
    /\ response_history = << >>
    /\ "notifications_sent" \in DOMAIN state
    /\ \A ch \in {"ui", "email", "crm"} : ~state.notifications_sent[ch]

----------------------------------------------------------------------------
(* The stored record and the resolution that is notified                    *)

\* the record save_response put for this resolution
RecordOf(resolution) ==
    response_history[CHOOSE i \in 1..Len(response_history) :
                        response_history[i].id = resolution.id]

HasRecord(resolution) ==
    /\ "id" \in DOMAIN resolution
    /\ \E i \in 1..Len(response_history) : response_history[i].id = resolution.id

\* C28: at the end of every completed cycle, the resolution record held in
\* the store for that cycle has the same root cause, steps, verification,
\* prevention and communication template as the final_resolution handed to
\* the Notifier, including when the consistency check amended the
\* resolution after it was generated.
Orig_C28 ==
    (/\ pc = "done"
     /\ Ran("notifier")
     /\ FinalResolution # NoneVal
     /\ HasRecord(FinalResolution))
        => \A f \in AmendedFields :
              RecordOf(FinalResolution).resolution[f] = FinalResolution[f]

----------------------------------------------------------------------------
(* SpecMonitor: the cycle as a process that always takes its next step      *)

\* the loop continues past the bound of the iteration counter: the loop of
\* the code has no maximum; the counter of the model saturates and the log
\* of completed stages drops its oldest iteration
LoopCheckBeyondBound ==
    /\ pc = "loop_check"
    /\ should_continue(state)
    /\ iterations = MaxIterations
    /\ pc' = "data_fetcher"
    /\ ran' = SubSeq(ran, 3, Len(ran))
    /\ UNCHANGED <<state, tools, response_history, cycle, iterations,
                   error, history_at_start, hi_result, baseline_for>>
    /\ UNCHANGED outsidePipeline

NextMonitor ==
    \/ Next
    \/ LoopCheckBeyondBound

\* process() is one coroutine awaited to its end: a step that can be taken
\* is taken
SpecMonitor == Init /\ [][NextMonitor]_vars /\ WF_vars(NextMonitor)

\* the exit check has just decided should_escalate = false on a detected
\* trend
NonEscalatingTrend ==
    /\ pc = "loop_check"
    /\ ran # << >>
    /\ ran[Len(ran)] = "exit_condition"
    /\ TrendingIssues # << >>
    /\ ~ExitSignal

\* the cycle is out of the monitoring loop (the failure of the cycle
\* included)
LeftMonitoring == pc \notin {"loop_check", "data_fetcher", "exit_condition"}

\* C29: if a trend is detected but the escalation check yields
\* should_escalate = false, the cycle still eventually leaves the monitoring
\* loop; a non-escalating trend is not held in monitoring indefinitely.
Orig_C29 == NonEscalatingTrend ~> LeftMonitoring

----------------------------------------------------------------------------
(* SpecIntervene: HumanInterventionAgent.process run on a session           *)

InterveneCounts == {0, 45, 50, 51, 100, 101, MaxCount}

\* sessions as check_human_intervention of enhanced_run_final.py builds
\* them, and sessions in which the summary or the resolution is missing
InterveneSessions ==
    { [summary |-> [primary_issue |-> [issue_type |-> t, count |-> c]],
       final_resolution |-> r] :
          t \in ScoreIssueTypes, c \in InterveneCounts, r \in ScoreResolutions }
    \cup { [summary |-> [primary_issue |-> [issue_type |-> "database", count |-> 101]]],
           [final_resolution |-> [kb_articles_used |-> IntVal(0),
                                  resolution_text |-> "restart"]],
           << >> }

InitIntervene ==
    /\ hs_state \in InterveneSessions
    /\ hs_crm_tool \in {"none", "CRMTool"}
    /\ hs_result = NoneVal
    /\ crm_escalations = 0
    /\ PipelineIdle
    /\ NoTools
    /\ ScoreIdle
    /\ RunFinalIdle
    /\ TrendIdle
    /\ RankIdle

\* HumanInterventionAgent.process; CRMTool.escalate_to_human makes one
\* request and returns its response
HumanInterventionProcess ==
    /\ hs_result = NoneVal
    /\ LET summary == Get(hs_state, "summary", NoneVal)
           resolution == Get(hs_state, "final_resolution", NoneVal)
       IN
       IF summary = NoneVal \/ resolution = NoneVal
         THEN /\ hs_result' = [human_intervention |-> NoneVal]
              /\ UNCHANGED <<hs_state, crm_escalations>>
         ELSE
         LET escalation_decision ==
                 _should_escalate(summary.primary_issue, resolution)
         IN
         IF "raised" \in DOMAIN escalation_decision
           THEN /\ hs_result' = escalation_decision
                /\ UNCHANGED <<hs_state, crm_escalations>>
         ELSE IF escalation_decision.should_escalate
           THEN IF hs_crm_tool # "none"
                  THEN /\ crm_escalations' = crm_escalations + 1
                       /\ hs_state' = Update(hs_state,
                             [escalated_to_human |-> TRUE,
                              escalation_details |-> escalation_decision])
                       /\ hs_result' =
                             [escalation_needed |-> TRUE,
                              escalation_details |-> escalation_decision,
                              crm_escalation |-> [success |-> TRUE]]
                  ELSE \* "CRM tool not available for escalation"
                       /\ hs_result' =
                             [escalation_needed |-> TRUE,
                              escalation_details |-> escalation_decision]
                       /\ UNCHANGED <<hs_state, crm_escalations>>
           ELSE /\ hs_state' = Update(hs_state, [escalated_to_human |-> FALSE])
                /\ hs_result' =
                      [escalation_needed |-> FALSE,
                       escalation_details |-> escalation_decision]
                /\ UNCHANGED crm_escalations
    /\ UNCHANGED hs_crm_tool
    /\ UNCHANGED outsideIntervene

NextIntervene == HumanInterventionProcess

SpecIntervene == InitIntervene /\ [][NextIntervene]_vars

\* the stage has evaluated a session with summary and final resolution
InterventionEvaluated ==
    /\ hs_result # NoneVal
    /\ "escalation_details" \in DOMAIN hs_result

\* C30: after the human-intervention stage has evaluated a cycle in which
\* both summary and final resolution are present, escalated_to_human is true
\* exactly when the decision's should_escalate is true, and the CRM
\* escalation has been invoked exactly once in that case and never when
\* should_escalate is false.
Orig_C30 ==
    InterventionEvaluated =>
        /\ Get(hs_state, "escalated_to_human", FALSE)
              = hs_result.escalation_details.should_escalate
        /\ crm_escalations
              = IF hs_result.escalation_details.should_escalate THEN 1 ELSE 0

====
